---- MODULE Spec2Model ----
(***************************************************************************)
(* Model of tmt's internal executor, src/tmt/steps/execute/internal.py:    *)
(* ExecuteInternal.go() and the methods it calls (execute, check,          *)
(* _setup_reboot, _handle_reboot).  One action per guest call or loop      *)
(* step of go(); the guest (push, pull, execute, reboot) is the            *)
(* environment: every call either returns or raises.                       *)
(*                                                                         *)
(* Text is a sequence of tokens.  The token MARKER stands for the literal  *)
(* "Requesting reboot: ", the tokens "0".."9" for the digits and any other *)
(* token for text that is neither.                                         *)
(***************************************************************************)
EXTENDS Integers, Sequences, FiniteSets, TLC

\* ------------------------------------------------------------------ bounds
NumGuests == 2
NumTests == 2
MaxReboots == 2
MaxArgs == 2

\* --------------------------------------------------------------- constants
REBOOT_VARIABLE == "REBOOT_COUNT"
BEAKERLIB_DIR == "BEAKERLIB_DIR"
MARKER == "Requesting reboot: "
REBOOT_SCRIPT_PATHS == <<"/usr/bin/rstrnt-reboot", "/usr/bin/rhts-reboot">>
PROCESS_TIMEOUT == 124
NoReturnCode == -1
DigitStr == <<"0", "1", "2", "3", "4", "5", "6", "7", "8", "9">>
Digit == {DigitStr[i] : i \in 1..10}
GuestKinds == {"GuestLocal", "Guest", "GuestProvisioned"}
Frameworks == <<"shell", "beakerlib", "other">>

\* ------------------------------------------------------------ conversions
DigitVal(d) == (CHOOSE i \in 1..10 : DigitStr[i] = d) - 1

\* int(text) for a text of digits
RECURSIVE int(_)
int(s) ==
    IF s = <<>> THEN 0
    ELSE 10 * int(SubSeq(s, 1, Len(s) - 1)) + DigitVal(s[Len(s)])

\* str(n) for n >= 0
RECURSIVE str(_)
str(n) ==
    IF n < 10 THEN <<DigitStr[n + 1]>>
    ELSE str(n \div 10) \o <<DigitStr[(n % 10) + 1]>>

\* the longest run of digits of s that starts at position i
RECURSIVE DigitRun(_, _)
DigitRun(s, i) ==
    IF i > Len(s) \/ s[i] \notin Digit THEN <<>>
    ELSE <<s[i]>> \o DigitRun(s, i + 1)

NoMatch == <<>>

\* (a search that returns the rightmost match)
re_search_Last(output) ==
    LET starts == {i \in 1..Len(output) :
                      output[i] = MARKER /\ DigitRun(output, i + 1) # <<>>}
    IN  IF starts = {} THEN NoMatch
        ELSE LET last == CHOOSE i \in starts : \A j \in starts : i >= j
             IN  DigitRun(output, last + 1)

\* re.search(r"Requesting reboot: (?P<count>\d+)", output): group "count" of
\* the leftmost match, NoMatch when there is none
re_search(output) ==
    LET starts == {i \in 1..Len(output) :
                      output[i] = MARKER /\ DigitRun(output, i + 1) # <<>>}
    IN  IF starts = {} THEN NoMatch
        ELSE LET first == CHOOSE i \in starts : \A j \in starts : i <= j
             IN  DigitRun(output, first + 1)

\* ------------------------------------------------------------ dictionaries
\* a dict is a set of <<key, value>> pairs with at most one pair per key
DictHas(d, k) == \E p \in d : p[1] = k
DictGet(d, k) == (CHOOSE p \in d : p[1] = k)[2]
DictSet(d, k, v) == {p \in d : p[1] # k} \cup {<<k, v>>}

\* ------------------------------------------------------------------ inputs
\* what one guest.execute() of a test command can do: return stdout (None in
\* interactive mode) or raise RunError carrying stdout and a return code
None == <<"None">>
Outcomes == {
    [raised |-> FALSE, returncode |-> 0, stdout |-> None],
    [raised |-> FALSE, returncode |-> 0, stdout |-> <<MARKER, "0">>],
    [raised |-> TRUE, returncode |-> 1, stdout |-> <<MARKER, "x">>],
    [raised |-> TRUE, returncode |-> PROCESS_TIMEOUT, stdout |-> None],
    [raised |-> TRUE, returncode |-> PROCESS_TIMEOUT,
     stdout |-> <<"x", MARKER, "1", "x", MARKER, "0">>] }

\* the beakerlib results journal found in the test's data directory
Journals == {"missing", "pass"}

\* the plans go() is run for: plan p has the tests whose frameworks are the
\* tags in turn and the guests whose classes are the kinds in turn, both
\* starting after the first p of them
Plans == {0, 2}
GuestOrder == <<"GuestProvisioned", "GuestLocal", "Guest">>

VARIABLES
    plan,        \* the plan: what discovery and provisioning have prepared
    pc,          \* position of go()
    raised,      \* TRUE once an exception has propagated out of go()
    dry,         \* self.opt('dry')
    gi,          \* number of guests the for loop has taken from guests()
    guest,       \* the loop variable guest: the class of the current guest
    setupStep,   \* guest.execute calls _setup_reboot has made on this guest
    index,       \* the loop variable index
    environment, \* test.environment of every test
    returncode,  \* test.returncode of every test
    outputFile,  \* data_path(test, TEST_OUTPUT_FILENAME) of every test
    results,     \* self._results
    timeout,     \* the timeout note of the last verbose line of execute()
    lastCall,    \* history: the last guest capability invoked (test 0: no test)
    attempts,    \* history: the last two attempts of the test last executed
    rebootCalls, \* history: guest.reboot() calls made for that test on this guest
                 \* (MaxReboots stands for MaxReboots or more)
    installed,   \* history: the installation commands run on the current guest
    pushes,      \* history: guest.push() calls made on the current guest
    progressResets, \* history: "_show_progress('', '', True)" calls made
    command      \* a MethodCommand: method is self._method (the command of
                 \* that name); history: parsedArgs, the args of the last
                 \* parse_args(), lastOp, the last operation called, and
                 \* delegate, the command that operation handed over to

goVars == <<plan, pc, raised, dry, gi, guest, setupStep, index, environment,
          returncode, outputFile, results, timeout, lastCall, attempts,
          rebootCalls, installed, pushes,
          progressResets>>

cmdVars == <<command>>

vars == <<goVars, cmdVars>>

\* the tests prepare_tests() returns: names are unique, the framework is one
\* of the tags, the environment is the one discovery gave the test
tests == [i \in 1..NumTests |->
             [name |-> i,
              framework |-> Frameworks[((i - 1 + plan) % Len(Frameworks)) + 1],
              environment |-> {}]]

\* the guests self.step.plan.provision.guests() returns, by their class
guests == [g \in 1..NumGuests |->
              GuestOrder[((g - 1 + plan) % Len(GuestOrder)) + 1]]

NoCall == [guest |-> 0, op |-> "none", test |-> 0, ok |-> TRUE]
Call(op, t, ok) == [guest |-> gi, op |-> op, test |-> t, ok |-> ok]

Init ==
    /\ plan \in Plans
    /\ pc = "go"
    /\ raised = FALSE
    /\ dry \in BOOLEAN
    /\ gi = 0
    /\ guest = "none"
    /\ setupStep = 0
    /\ index = 0
    /\ environment = [i \in 1..NumTests |-> tests[i].environment]
    /\ returncode = [i \in 1..NumTests |-> NoReturnCode]
    /\ outputFile = [i \in 1..NumTests |-> <<>>]
    /\ results = <<>>
    /\ timeout = ""
    /\ lastCall = NoCall
    /\ attempts = <<>>
    /\ rebootCalls = 0
    /\ installed = <<>>
    /\ pushes = 0
    /\ progressResets = 0
    /\ command = [method |-> None, parsedArgs |-> <<>>, lastOp |-> "none",
                   delegate |-> "none"]


\* ------------------------------------------------- pieces of the methods
\* (a go() that ignores the dry option)
IsDry_Ignored(opt) == FALSE

\* go(): "if self.opt('dry')"
IsDry(opt) == opt

\* (a _setup_reboot() that leaves only local guests alone)
SkipsSetup_LocalOnly(kind) == kind = "GuestLocal"

\* _setup_reboot(): local and connect guests are left alone
SkipsSetup(kind) == kind = "GuestLocal" \/ kind = "Guest"

\* _setup_reboot(): the guest.execute calls, two for every script path
SetupCommands ==
    [n \in 1..(2 * Len(REBOOT_SCRIPT_PATHS)) |->
        [command |-> IF n % 2 = 1 THEN "echo" ELSE "chmod",
         path |-> REBOOT_SCRIPT_PATHS[(n + 1) \div 2]]]

\* (a go() that swallows the failure of a guest call)
GuestErrorPropagates_Swallowed(ok) == FALSE

\* go(), _setup_reboot(), _handle_reboot(): no guest call is inside a try
\* statement, so a call that raises leaves go() as an exception
GuestErrorPropagates(ok) == ~ok

\* (a while loop that stops one test early)
WhilePc_StopsEarly(i) == IF i + 1 < Len(tests) THEN "execute" ELSE "show_progress"

\* go(): "while index < len(tests)"
WhilePc(i) == IF i < Len(tests) THEN "execute" ELSE "show_progress"

\* execute(): the environment handed to guest.execute
ExecuteEnvironment(test, env) ==
    IF test.framework = "beakerlib"
    THEN DictSet(env, BEAKERLIB_DIR, <<"data", "directory">>)
    ELSE env

\* execute(): test.returncode after the try statement
ExecuteReturncode(o) == IF o.raised THEN o.returncode ELSE 0

\* (an execute() without the "except RunError" clause)
ExecutePropagates_Uncaught(o) == o.raised

\* execute(): does the outcome of guest.execute leave execute() as an exception
ExecutePropagates(o) == FALSE

\* (an execute() that notes a timeout for every failed command)
TimeoutNote_AnyFailure(rc) == IF rc # 0 THEN " (timeout)" ELSE ""

\* execute(): the timeout note of the verbose line
TimeoutNote(rc) == IF rc = PROCESS_TIMEOUT THEN " (timeout)" ELSE ""

\* (an execute() that forgets the output a RunError carries)
CapturedStdout_ErrorDropped(o) == IF o.raised THEN None ELSE o.stdout

\* execute(): stdout, returned by guest.execute or taken from the RunError
CapturedStdout(o) == o.stdout

\* (an execute() that writes the output file only when there is output)
WriteFile_SkipEmpty(old, text) == IF text = <<>> THEN old ELSE text

\* execute(): self.write(path, text, level=3) replaces the file's content
WriteFile(old, text) == text

\* guest.pull(): the output file execute() wrote on the host is as it was
PulledOutput(file) == file

\* (a go() that goes from execute() straight to the reboot check)
AfterExecute_NoPull == "handle_reboot"

\* go(): guest.pull() follows self.execute()
AfterExecute == "pull"

\* execute(): "stdout or ''", the text written to the output file
WrittenOutput(stdout) == IF stdout = None \/ stdout = <<>> THEN <<>> ELSE stdout

\* (a pattern without the digits: the literal alone asks for a reboot)
RebootRequested_LiteralOnly(output) ==
    \E i \in 1..Len(output) : output[i] = MARKER

\* _handle_reboot(): "if match"
RebootRequested(output) == re_search(output) # NoMatch

\* (a _handle_reboot() that forgets the "+ 1")
RebootEnvironment_SameCount(env, output) ==
    DictSet(env, REBOOT_VARIABLE, str(int(re_search(output))))

\* _handle_reboot(): the environment after a reboot was requested
RebootEnvironment(env, output) ==
    DictSet(env, REBOOT_VARIABLE, str(int(re_search(output)) + 1))

\* (a _handle_reboot() whose else branch drops the variable)
ResetEnvironment_Deleted(env) == {p \in env : p[1] # REBOOT_VARIABLE}

\* (a _handle_reboot() without the else branch)
ResetEnvironment_Missing(env) == env

\* _handle_reboot(): the environment when no reboot was requested
ResetEnvironment(env) == DictSet(env, REBOOT_VARIABLE, <<"0">>)

\* (a _handle_reboot() that writes the count before it calls guest.reboot())
AfterReboot_CountFirst(env, output, ok) == RebootEnvironment(env, output)

\* _handle_reboot(): guest.reboot() comes before the assignment to
\* test.environment, which a reboot that raises never reaches
AfterReboot(env, output, ok) ==
    IF ok THEN RebootEnvironment(env, output) ELSE env

\* (a go() that gives up rebooting after two reboots of a test)
RetryTaken_Capped(requested, reboots) == requested /\ reboots < 2

\* go(): "if self._handle_reboot(test, guest): continue", however many
\* reboots the test has had
RetryTaken(requested, reboots) == requested

\* (a retry that moves on to the next test)
RetryIndex_Skip(i) == i + 1

\* (a retry that falls through to the append)
RetryResults_Emit(r, result) == Append(r, result)

\* go(): "continue" goes back to the while test with index as it is
RetryIndex(i) == i

\* go(): "continue" skips the append
RetryResults(r, result) == r

\* go(): "index += 1"
AdvanceIndex(i) == i + 1

\* check_shell(): the exit code decides
check_shell(test, rc) ==
    [name |-> test.name, result |-> IF rc = 0 THEN "pass" ELSE "fail"]

\* check_beakerlib(): the journal decides; a missing or unreadable journal
\* and a test killed by the timeout are errors
check_beakerlib(test, rc, journal) ==
    [name |-> test.name,
     result |-> IF journal = "missing" THEN "error"
                ELSE IF rc = PROCESS_TIMEOUT THEN "error"
                ELSE journal]

\* (a check() that takes only the tag shell for a shell test)
check_ShellTagOnly(test, rc, journal) ==
    IF test.framework = "shell"
    THEN check_shell(test, rc)
    ELSE check_beakerlib(test, rc, journal)

\* check()
check(test, rc, journal) ==
    IF test.framework = "beakerlib"
    THEN check_beakerlib(test, rc, journal)
    ELSE check_shell(test, rc)

\* ------------------------------------------------------------------ actions
\* go() up to the for loop
Go ==
    /\ pc = "go" /\ ~raised
    /\ results' = <<>>
    /\ pc' = IF IsDry(dry) THEN "done" ELSE "for"
    /\ UNCHANGED <<plan, raised, dry, gi, guest, setupStep, index, environment,
                   returncode, outputFile, timeout, lastCall, attempts,
                   rebootCalls, installed, pushes, progressResets>>
    /\ UNCHANGED cmdVars

\* "for guest in self.step.plan.provision.guests()"
ForGuest ==
    /\ pc = "for" /\ ~raised
    /\ IF gi < NumGuests
       THEN /\ guest' = guests[gi + 1]
            /\ guest' \in GuestKinds
            /\ gi' = gi + 1
            /\ setupStep' = 0
            /\ installed' = <<>>
            /\ pushes' = 0
            /\ pc' = "setup_reboot"
       ELSE /\ pc' = "done"
            /\ UNCHANGED <<gi, guest, setupStep, installed, pushes>>
    /\ UNCHANGED <<plan, raised, dry, index, environment, returncode, outputFile,
                   results, timeout, lastCall, attempts, rebootCalls,
                   progressResets>>
    /\ UNCHANGED cmdVars

\* _setup_reboot(guest) on a local or connect guest: return at once
SetupRebootSkip ==
    /\ pc = "setup_reboot" /\ ~raised
    /\ SkipsSetup(guest)
    /\ pc' = "push"
    /\ UNCHANGED <<plan, raised, dry, gi, guest, setupStep, index, environment,
                   returncode, outputFile, results, timeout, lastCall,
                   attempts, rebootCalls, installed, pushes, progressResets>>
    /\ UNCHANGED cmdVars

\* _setup_reboot(guest): the next guest.execute of the installation
SetupRebootCall ==
    /\ pc = "setup_reboot" /\ ~raised
    /\ ~SkipsSetup(guest)
    /\ \E ok \in BOOLEAN :
        /\ lastCall' = Call("execute", 0, ok)
        /\ raised' = GuestErrorPropagates(ok)
        /\ setupStep' = IF ok THEN setupStep + 1 ELSE setupStep
        /\ installed' = IF ok THEN Append(installed, SetupCommands[setupStep + 1])
                        ELSE installed
        /\ pc' = IF ok /\ setupStep + 1 = Len(SetupCommands)
                 THEN "push" ELSE "setup_reboot"
    /\ UNCHANGED <<plan, dry, gi, guest, index, environment, returncode,
                   outputFile, results, timeout, attempts, rebootCalls, pushes,
                   progressResets>>
    /\ UNCHANGED cmdVars

\* guest.push() and "index = 0"
Push ==
    /\ pc = "push" /\ ~raised
    /\ \E ok \in BOOLEAN :
        /\ lastCall' = Call("push", 0, ok)
        /\ raised' = GuestErrorPropagates(ok)
        /\ index' = IF ok THEN 0 ELSE index
        /\ pc' = IF ok THEN WhilePc(0) ELSE "push"
    /\ pushes' = pushes + 1
    /\ UNCHANGED <<plan, dry, gi, guest, setupStep, environment, returncode,
                   outputFile, results, timeout, attempts, rebootCalls,
                   installed, progressResets>>
    /\ UNCHANGED cmdVars

\* the reboots already made for test t on the current guest
RebootsOf(t) ==
    IF attempts # <<>> /\ attempts[1].guest = gi /\ attempts[1].test = t
    THEN rebootCalls ELSE 0

\* the history counts reboots up to MaxReboots and stays there
CountReboot(n) == IF n < MaxReboots THEN n + 1 ELSE MaxReboots

\* self.execute(test, guest, progress)
Execute ==
    /\ pc = "execute" /\ ~raised
    /\ LET t == index + 1
           test == tests[t]
           env == ExecuteEnvironment(test, environment[t])
           same == attempts # <<>> /\ attempts[1].guest = gi
                                   /\ attempts[1].test = t
       IN \E o \in Outcomes :
           /\ lastCall' = Call("execute", t, ~o.raised)
           /\ returncode' = [returncode EXCEPT ![t] = ExecuteReturncode(o)]
           /\ timeout' = TimeoutNote(ExecuteReturncode(o))
           /\ outputFile' = [outputFile EXCEPT
                                ![t] = WriteFile(@, WrittenOutput(CapturedStdout(o)))]
           /\ raised' = ExecutePropagates(o)
           /\ pc' = IF ExecutePropagates(o) THEN "execute" ELSE AfterExecute
           /\ attempts' = (IF same THEN <<attempts[Len(attempts)]>> ELSE <<>>)
                              \o <<[guest |-> gi, test |-> t,
                                    number |-> RebootsOf(t) + 1,
                                    env |-> env, outcome |-> o]>>
           /\ rebootCalls' = IF same THEN rebootCalls ELSE 0
    /\ UNCHANGED <<plan, dry, gi, guest, setupStep, index, environment, results,
                   installed, pushes, progressResets>>
    /\ UNCHANGED cmdVars

\* guest.pull(source=self.data_path(test, full=True))
Pull ==
    /\ pc = "pull" /\ ~raised
    /\ \E ok \in BOOLEAN :
        /\ lastCall' = Call("pull", index + 1, ok)
        /\ raised' = GuestErrorPropagates(ok)
        /\ pc' = IF ok THEN "handle_reboot" ELSE "pull"
    /\ outputFile' = [outputFile EXCEPT ![index + 1] = PulledOutput(@)]
    /\ UNCHANGED <<plan, dry, gi, guest, setupStep, index, environment, returncode,
                   results, timeout, attempts, rebootCalls,
                   installed, pushes, progressResets>>
    /\ UNCHANGED cmdVars

\* "if self._handle_reboot(test, guest): continue" when the output file asks
\* for a reboot
HandleRebootRetry ==
    /\ pc = "handle_reboot" /\ ~raised
    /\ LET t == index + 1
           output == outputFile[t]
       IN /\ RetryTaken(RebootRequested(output), rebootCalls)
          /\ \E ok \in BOOLEAN :
              /\ lastCall' = Call("reboot", t, ok)
              /\ rebootCalls' = CountReboot(rebootCalls)
              /\ raised' = GuestErrorPropagates(ok)
              /\ environment' =
                    [environment EXCEPT ![t] = AfterReboot(@, output, ok)]
              /\ index' = RetryIndex(index)
              /\ results' = RetryResults(results, check(tests[t], returncode[t], "missing"))
              /\ pc' = IF ok THEN WhilePc(index') ELSE "handle_reboot"
    /\ UNCHANGED <<plan, dry, gi, guest, setupStep, returncode, outputFile,
                   timeout, attempts, installed, pushes, progressResets>>
    /\ UNCHANGED cmdVars

\* _handle_reboot() returning False, then "self._results.append(
\* self.check(test))" and "index += 1"
HandleRebootFinalize ==
    /\ pc = "handle_reboot" /\ ~raised
    /\ LET t == index + 1
           output == outputFile[t]
       IN /\ ~RetryTaken(RebootRequested(output), rebootCalls)
          /\ environment' = [environment EXCEPT ![t] = ResetEnvironment(@)]
          /\ \E journal \in Journals :
                results' = Append(results, check(tests[t], returncode[t], journal))
          /\ index' = AdvanceIndex(index)
          /\ pc' = WhilePc(index')
    /\ UNCHANGED <<plan, raised, dry, gi, guest, setupStep, returncode, outputFile,
                   timeout, lastCall, attempts, rebootCalls, installed, pushes,
                   progressResets>>
    /\ UNCHANGED cmdVars

\* "self._show_progress('', '', True)" at the end of a guest's run
ShowProgress ==
    /\ pc = "show_progress" /\ ~raised
    /\ pc' = "for"
    /\ progressResets' = progressResets + 1
    /\ UNCHANGED <<plan, raised, dry, gi, guest, setupStep, index, environment,
                   returncode, outputFile, results, timeout, lastCall,
                   attempts, rebootCalls, installed, pushes>>
    /\ UNCHANGED cmdVars

Next ==
    \/ Go
    \/ ForGuest
    \/ SetupRebootSkip
    \/ SetupRebootCall
    \/ Push
    \/ Execute
    \/ Pull
    \/ HandleRebootRetry
    \/ HandleRebootFinalize
    \/ ShowProgress

Spec == Init /\ [][Next]_vars

\* go() is one control flow and every guest call returns or raises: a step
\* that can be taken is taken
FairSpec == Spec /\ WF_vars(Next)


\* ------------------------------------------------ the method command
\* a text is the sequence of its characters

\* HOW
HOW == {<<"-", "h">>, <<"-", "-", "h", "o", "w">>}

\* the names of the methods handed to create_method_class(), in the order of
\* their priority
methods == <<<<"t", "m", "t">>,
             <<"s", "h", "e", "l", "l", ".", "t", "m", "t">>,
             <<"b", "e", "a", "k", "e", "r", "l", "i", "b", ".", "t", "m", "t">>,
             <<"s", "h", "e", "l", "l", ".", "d", "e", "t", "a", "c", "h">>>>

\* the arguments a command line is made of
ArgPool == {
    <<"-", "h">>,
    <<"-", "-", "h", "o", "w">>,
    <<"-", "-", "h", "o", "w", "=", "s">>,
    <<"-", "-", "h", "o", "w", "=">>,
    <<"-", "h", "s">>,
    <<"-", "h", " ", "b">>,
    <<"s", "h", "e", "l", "l", ".", "d">>,
    <<"x">>,
    <<"-", "v">> }

\* the argument lists parse_args() is called with
RECURSIVE ArgLists(_)
ArgLists(n) ==
    IF n = 0 THEN {<<>>}
    ELSE ArgLists(n - 1) \cup
         {Append(a, w) : a \in {b \in ArgLists(n - 1) : Len(b) = n - 1},
                         w \in ArgPool}

\* text.startswith(prefix)
startswith(text, prefix) ==
    /\ Len(prefix) <= Len(text)
    /\ SubSeq(text, 1, Len(prefix)) = prefix

\* re.sub('^--how=', '', text)
StripLongHow(text) ==
    IF startswith(text, <<"-", "-", "h", "o", "w", "=">>)
    THEN SubSeq(text, 7, Len(text)) ELSE text

\* re.sub('^-h ?', '', text)
StripShortHow(text) ==
    IF startswith(text, <<"-", "h", " ">>) THEN SubSeq(text, 4, Len(text))
    ELSE IF startswith(text, <<"-", "h">>) THEN SubSeq(text, 3, Len(text))
    ELSE text

\* _check_method(): the for loop over the arguments from position i on; the
\* value of how after it
RECURSIVE ScanHow(_, _)
ScanHow(args, i) ==
    IF i > Len(args) THEN None
    ELSE IF args[i] \in HOW
         THEN IF i + 1 <= Len(args) THEN args[i + 1] ELSE None
    ELSE IF startswith(args[i], <<"-", "-", "h", "o", "w", "=">>) THEN StripLongHow(args[i])
    ELSE IF startswith(args[i], <<"-", "h">>) THEN StripShortHow(args[i])
    ELSE ScanHow(args, i + 1)

\* _check_method(): "for method in methods: if method.startswith(how)", the
\* first match, None when the loop ends without one
FirstMatch(how) ==
    LET matching == {k \in 1..Len(methods) : startswith(methods[k], how)}
    IN  IF matching = {} THEN None
        ELSE methods[CHOOSE k \in matching : \A j \in matching : k <= j]

\* _check_method(): self._method after the call; it is assigned only when a
\* method matches
check_method(current, args) ==
    LET how == ScanHow(args, 1)
    IN  IF how # None /\ FirstMatch(how) # None
        THEN FirstMatch(how) ELSE current

\* parse_args(), get_help(), invoke(): the method's command when there is
\* one, else the base command
Delegate(m) == IF m # None THEN m ELSE "base"

\* parse_args(context, args)
ParseArgs ==
    \E args \in ArgLists(MaxArgs) :
        LET selected == check_method(command.method, args)
        IN  /\ command' = [method |-> selected, parsedArgs |-> args,
                           lastOp |-> "parse_args",
                           delegate |-> Delegate(selected)]
            /\ UNCHANGED goVars

\* get_help(context)
GetHelp ==
    /\ command' = [command EXCEPT !.lastOp = "get_help",
                                  !.delegate = Delegate(command.method)]
    /\ UNCHANGED goVars

\* invoke(context)
Invoke ==
    /\ command' = [command EXCEPT !.lastOp = "invoke",
                                  !.delegate = Delegate(command.method)]
    /\ UNCHANGED goVars

\* a command object as the command line interface uses it: created once,
\* then parsed, asked for help and invoked whenever its name is given
CommandInit == Init /\ plan = 0 /\ ~dry

CommandNext ==
    \/ ParseArgs
    \/ GetHelp
    \/ Invoke

CommandSpec == CommandInit /\ [][CommandNext]_vars

\* ------------------------------------------------------ notions of the claims
\* the text contains a reboot-request marker: the literal followed by a digit
ContainsMarker(text) ==
    \E i \in 1..(Len(text) - 1) : text[i] = MARKER /\ text[i + 1] \in Digit

\* the REBOOT_COUNT entries of an environment (none or one)
RebootCountOf(env) == {p \in env : p[1] = REBOOT_VARIABLE}

\* the number REBOOT_COUNT stands for, 0 when unset as in the helper script
RebootCountValue(env) ==
    IF DictHas(env, REBOOT_VARIABLE) THEN int(DictGet(env, REBOOT_VARIABLE)) ELSE 0

LastAttempt == attempts[Len(attempts)]

\* the position in results of the Result of test t in the run of guest g
ResultPosition(g, t) == (g - 1) * NumTests + t

\* the Results of test t appended during the run of guest g
ResultsOf(g, t) ==
    {k \in 1..Len(results) :
        /\ (g - 1) * NumTests < k /\ k <= g * NumTests
        /\ results[k].name = tests[t].name}

\* the test of the attempts history has been finalized on its guest
Finalized ==
    /\ attempts # <<>>
    /\ \/ LastAttempt.guest < gi
       \/ LastAttempt.guest = gi /\ pc \notin {"pull", "handle_reboot"}
                                 /\ index >= LastAttempt.test

\* ------------------------------------------------------------------ claims
\* C1: when a non-dry go() returns without a guest failure, results() holds
\* exactly NumGuests * NumTests Results and the Result at every position of
\* every guest's run is the one of the test at that position.
C1_ExactlyOneResultPerTestPerGuest ==
    (pc = "done" /\ ~dry /\ ~raised) =>
        /\ Len(results) = NumGuests * NumTests
        /\ \A g \in 1..NumGuests : \A t \in 1..NumTests :
              /\ results[ResultPosition(g, t)].name = tests[t].name
              /\ Cardinality(ResultsOf(g, t)) = 1

\* C1: go() has returned after the last test made a reboot-requesting attempt
C1_Witness ==
    /\ pc = "done" /\ ~dry /\ ~raised
    /\ attempts # <<>> /\ LastAttempt.number > 1
    /\ Len(results) = NumGuests * NumTests

\* C2: in every state of go() the Results appended during the current
\* guest's run are those of tests[0..index-1], in that order, after the full
\* runs of the earlier guests.
C2_ResultsInTestOrder ==
    (~dry /\ gi >= 1) =>
        LET sofar == IF pc \in {"setup_reboot", "push"} THEN 0 ELSE index
        IN  /\ Len(results) = (gi - 1) * NumTests + sofar
            /\ \A k \in 1..Len(results) :
                  results[k].name = tests[((k - 1) % NumTests) + 1].name

\* C2: the second test of the second guest is being retried after a reboot
C2_Witness ==
    /\ gi = 2 /\ index = 1 /\ pc = "handle_reboot" /\ ~raised
    /\ LastAttempt.number > 1
    /\ Len(results) = NumTests + 1

\* C3: the reboot check of an attempt leaves index and the results alone
\* (and goes back to execute the same test) iff the attempt's output contains
\* a marker; otherwise it appends one Result, of this test, and adds one to
\* index.
C3_RetryIffMarker ==
    [][(pc = "handle_reboot" /\ ~raised) =>
          LET t == index + 1 IN
          IF ContainsMarker(LastAttempt.outcome.stdout)
          THEN /\ index' = index
               /\ results' = results
               /\ ~raised' => pc' = "execute"
          ELSE /\ index' = index + 1
               /\ Len(results') = Len(results) + 1
               /\ SubSeq(results', 1, Len(results)) = results
               /\ results'[Len(results')].name = tests[t].name
               /\ ~raised']_vars

\* C3: the same test is about to be executed again after a reboot
C3_Witness ==
    /\ pc = "execute" /\ ~raised
    /\ attempts # <<>> /\ LastAttempt.guest = gi /\ LastAttempt.test = index + 1
    /\ rebootCalls >= 1
    /\ ContainsMarker(LastAttempt.outcome.stdout)

\* C4: in a dry run go() goes straight to its end: results() is empty and no
\* guest capability is ever invoked.
C4_DryRun ==
    dry => /\ results = <<>>
           /\ lastCall = NoCall
           /\ pc \in {"go", "done"}
           /\ gi = 0
           /\ ~raised

\* C4: a dry go() has returned
C4_Witness == dry /\ pc = "done"

\* C5: a push, pull or reboot that fails raises out of go() with the results
\* and the loop position as they were, and once go() has raised no guest call
\* is made and no Result is appended.
C5_GuestFailureIsFatal ==
    [][/\ (/\ lastCall' # lastCall
           /\ lastCall'.op \in {"push", "pull", "reboot"}
           /\ ~lastCall'.ok)
          => (raised' /\ results' = results /\ index' = index /\ gi' = gi)
       /\ raised => (raised' /\ UNCHANGED <<lastCall, results, index, gi, pc>>)
       /\ (raised' /\ ~raised) => ~lastCall'.ok]_vars

\* C5: a reboot has failed after Results had been appended
C5_Witness ==
    /\ raised /\ lastCall.op = "reboot" /\ ~lastCall.ok
    /\ results # <<>>

\* C6: a test's guest.execute that ends in a RunError never makes go()
\* raise: the error's return code and output are recorded and the attempt goes
\* on to the pull.
C6_TestFailureNeverAborts ==
    /\ (lastCall.op = "execute" /\ lastCall.test # 0) =>
          /\ ~raised
          /\ pc = "pull"
          /\ LastAttempt.test = lastCall.test
          /\ LastAttempt.outcome.raised = ~lastCall.ok
          /\ LastAttempt.outcome.raised =>
                /\ returncode[lastCall.test] = LastAttempt.outcome.returncode
                /\ outputFile[lastCall.test] =
                      (IF LastAttempt.outcome.stdout = None THEN <<>>
                       ELSE LastAttempt.outcome.stdout)
    /\ raised => ~(lastCall.op = "execute" /\ lastCall.test # 0)

\* C6: go() has returned with every Result although the first test's last
\* attempt failed and the last test's timed out
C6_Witness ==
    /\ pc = "done" /\ ~dry /\ ~raised
    /\ returncode[1] = 1
    /\ returncode[NumTests] = PROCESS_TIMEOUT
    /\ Len(results) = NumGuests * NumTests


\* the attempts history holds two consecutive attempts of one test
TwoAttempts == Len(attempts) = 2

\* the history is that of the single-reboot scenario: the first attempt asked
\* for a reboot with the integer 0, the second attempt did not ask for one
SingleReboot ==
    /\ TwoAttempts
    /\ attempts[1].number = 1
    /\ re_search(WrittenOutput(attempts[1].outcome.stdout)) = <<"0">>
    /\ ~ContainsMarker(attempts[2].outcome.stdout)

BothRequestReboot ==
    /\ TwoAttempts
    /\ ContainsMarker(attempts[1].outcome.stdout)
    /\ ContainsMarker(attempts[2].outcome.stdout)

\* the marker of the earlier attempt carries the REBOOT_COUNT the attempt ran
\* with, 0 when unset: what the helper script prints
EchoesRebootCount(a) ==
    int(re_search(WrittenOutput(a.outcome.stdout))) = RebootCountValue(a.env)

\* C8 (as stated): of two consecutive attempts of a test that both request a
\* reboot, the later runs with a REBOOT_COUNT strictly greater than the
\* earlier, whatever the markers carry.
C8_Original_StrictlyIncreasing ==
    BothRequestReboot =>
        RebootCountValue(attempts[2].env) > RebootCountValue(attempts[1].env)

\* C8 (amended): of two consecutive attempts of a test that both request a
\* reboot, the later runs with the integer of the earlier attempt's marker
\* plus one; this is strictly greater than (one more than) the earlier
\* attempt's REBOOT_COUNT when the marker carries that REBOOT_COUNT, 0 when
\* unset, as the helper script prints it.
C8_IncreasesWhenMarkerEchoesCount ==
    BothRequestReboot =>
        /\ RebootCountValue(attempts[2].env)
              = int(re_search(WrittenOutput(attempts[1].outcome.stdout))) + 1
        /\ EchoesRebootCount(attempts[1]) =>
              RebootCountValue(attempts[2].env)
                  = RebootCountValue(attempts[1].env) + 1

\* C8: two consecutive reboot-requesting attempts, each echoing its count
C8_Witness ==
    /\ BothRequestReboot
    /\ EchoesRebootCount(attempts[1])
    /\ EchoesRebootCount(attempts[2])
    /\ RebootCountValue(attempts[2].env) = 1

\* the first attempt of a test on the current guest has just been executed
FirstAttemptExecuted ==
    /\ pc = "pull"
    /\ LastAttempt.number = 1

\* C9 (as stated): the REBOOT_COUNT handed to a test's first attempt on a
\* guest is the one discovery gave the test, whether or not the test ran on
\* an earlier guest.
C9_Original_EnvironmentNotShared ==
    FirstAttemptExecuted =>
        RebootCountOf(LastAttempt.env)
            = RebootCountOf(tests[LastAttempt.test].environment)

\* C9 (amended): test.environment is one mapping for all guests: the first
\* attempt of a test on the first guest runs with the REBOOT_COUNT discovery
\* gave it, and on every later guest with REBOOT_COUNT "0", the value written
\* when the test was finalized on the guest before.
C9_FirstAttemptEnvironment ==
    FirstAttemptExecuted =>
        RebootCountOf(LastAttempt.env) =
            (IF LastAttempt.guest = 1
             THEN RebootCountOf(tests[LastAttempt.test].environment)
             ELSE {<<REBOOT_VARIABLE, <<"0">>>>})

\* C9: a beakerlib test's first attempt on the second guest has run with the
\* REBOOT_COUNT written on the first guest
C9_Witness ==
    /\ FirstAttemptExecuted
    /\ LastAttempt.guest = 2
    /\ tests[LastAttempt.test].framework = "beakerlib"
    /\ DictHas(LastAttempt.env, BEAKERLIB_DIR)
    /\ DictGet(LastAttempt.env, REBOOT_VARIABLE) = <<"0">>

\* the last attempt of the history ended with the timeout return code
TimedOut ==
    /\ attempts # <<>>
    /\ LastAttempt.outcome.raised
    /\ LastAttempt.outcome.returncode = PROCESS_TIMEOUT

FinalizedTests ==
    IF gi = 0 \/ pc \in {"setup_reboot", "push"} THEN {} ELSE 1..index

\* C11: on every guest the Result of every finalized test whose framework is
\* not beakerlib, whatever the tag, is pass if the test's return code is 0
\* and fail otherwise, at the test's position.
C11_ShellClassification ==
    \A t \in FinalizedTests :
        tests[t].framework # "beakerlib" =>
            /\ Len(results) >= ResultPosition(gi, t)
            /\ results[ResultPosition(gi, t)] =
                  [name |-> tests[t].name,
                   result |-> IF returncode[t] = 0 THEN "pass" ELSE "fail"]

\* C11: two tests that are not beakerlib tests, the first with a tag that is
\* not shell, ended with 0 and 1 on the first guest without a reboot: pass,
\* then fail
C11_Witness ==
    /\ gi = 1 /\ index = 2 /\ pc = "show_progress"
    /\ tests[1].framework = "other" /\ tests[2].framework = "shell"
    /\ returncode[1] = 0 /\ returncode[2] = 1
    /\ rebootCalls = 0
    /\ results = <<[name |-> 1, result |-> "pass"],
                   [name |-> 2, result |-> "fail"]>>

\* the installation of the helper script: written, then made executable, at
\* the one path and then at the other
FullInstallation ==
    <<[command |-> "echo", path |-> "/usr/bin/rstrnt-reboot"],
      [command |-> "chmod", path |-> "/usr/bin/rstrnt-reboot"],
      [command |-> "echo", path |-> "/usr/bin/rhts-reboot"],
      [command |-> "chmod", path |-> "/usr/bin/rhts-reboot"]>>

\* C12: on a local guest and on a guest of the base class no installation
\* command is ever run and no guest.execute precedes the push; on any other
\* guest the installation commands are run in their order, and all of them
\* have been run once _setup_reboot is over: before the push and before any
\* attempt of a test on that guest.
C12_HelperOnlyOnProvisionedGuests ==
    gi >= 1 =>
        IF guest \in {"GuestLocal", "Guest"}
        THEN /\ installed = <<>>
             /\ ~(lastCall.guest = gi /\ lastCall.op = "execute"
                                     /\ lastCall.test = 0)
        ELSE /\ \E n \in 0..Len(FullInstallation) :
                    installed = SubSeq(FullInstallation, 1, n)
             /\ (pushes > 0 \/ (attempts # <<>> /\ LastAttempt.guest = gi)) =>
                    installed = FullInstallation
             /\ installed # FullInstallation =>
                    lastCall.guest < gi \/ (lastCall.op = "execute"
                                             /\ lastCall.test = 0)

\* C12: a provisioned guest has the helper installed and is about to be
\* pushed to
C12_Witness ==
    /\ guest = "GuestProvisioned" /\ pc = "push" /\ ~raised
    /\ pushes = 0
    /\ installed = FullInstallation
    /\ lastCall = [guest |-> gi, op |-> "execute", test |-> 0, ok |-> TRUE]

\* a step of go() that invokes a guest capability: it records the call, and
\* only the calls of one installation are recorded alike
CallMade ==
    \/ lastCall' # lastCall
    \/ Len(installed') > Len(installed)
    \/ pushes' > pushes

\* C13: every call is made on the current guest and never on an earlier one;
\* push is the first call on a guest but for the installation and is made
\* once; a test is executed after the push (the first test), after the pull
\* of the test before it, or after the reboot it asked for; pull follows the
\* execute of the same test; reboot follows the successful pull of an attempt
\* that asked for it; no call follows a failed one but the pull after a
\* failed test; a Result is appended only right after the successful pull of
\* the test's attempt, with no call in between; go() takes the next guest
\* with no call, after one push and all the tests on the guest before.
C13_CallOrder ==
    [][ /\ CallMade =>
            /\ gi' = gi /\ lastCall'.guest = gi
            /\ lastCall.guest <= gi
            /\ lastCall.guest = gi =>
                  lastCall.ok \/ (lastCall.op = "execute" /\ lastCall.test > 0)
            /\ lastCall'.op = "push" =>
                  /\ pushes = 0 /\ pushes' = 1
                  /\ \/ lastCall.guest < gi
                     \/ lastCall.op = "execute" /\ lastCall.test = 0
            /\ lastCall'.op = "execute" /\ lastCall'.test = 0 =>
                  /\ pushes = 0
                  /\ \/ lastCall.guest < gi
                     \/ lastCall.op = "execute" /\ lastCall.test = 0
            /\ lastCall'.op = "execute" /\ lastCall'.test > 0 =>
                  /\ pushes = 1
                  /\ lastCall.guest = gi
                  /\ \/ lastCall.op = "push" /\ lastCall'.test = 1
                     \/ lastCall.op = "pull" /\ lastCall'.test = lastCall.test + 1
                     \/ lastCall.op = "reboot" /\ lastCall'.test = lastCall.test
            /\ lastCall'.op = "pull" =>
                  /\ lastCall.guest = gi /\ lastCall.op = "execute"
                  /\ lastCall'.test = lastCall.test /\ lastCall.test > 0
            /\ lastCall'.op = "reboot" =>
                  /\ lastCall.guest = gi /\ lastCall.op = "pull"
                  /\ lastCall'.test = lastCall.test
                  /\ LastAttempt.guest = gi /\ LastAttempt.test = lastCall.test
                  /\ ContainsMarker(LastAttempt.outcome.stdout)
        /\ Len(results') > Len(results) =>
            /\ ~CallMade
            /\ lastCall = [guest |-> gi, op |-> "pull", test |-> index + 1,
                           ok |-> TRUE]
            /\ results'[Len(results')].name = tests[index + 1].name
        /\ gi' # gi => ~CallMade /\ gi' = gi + 1
                        /\ (gi >= 1 => pushes = 1 /\ index = NumTests)
        /\ pc = "for" /\ pc' = "done" => ~CallMade /\ pushes = 1
      ]_vars

\* C13: on the second guest a test has been executed, pulled, rebooted for,
\* executed and pulled again, and its Result appended
C13_Witness ==
    /\ gi = 2 /\ pushes = 1 /\ index = 1
    /\ Len(attempts) = 2 /\ LastAttempt.guest = 2 /\ LastAttempt.test = 1
    /\ rebootCalls = 1
    /\ lastCall = [guest |-> 2, op |-> "pull", test |-> 1, ok |-> TRUE]
    /\ Len(results) = NumTests + 1

\* the integer N of the first marker "Requesting reboot: N" of a text that
\* contains a marker
MarkerInteger(text) ==
    LET first == CHOOSE i \in 1..(Len(text) - 1) :
                     /\ text[i] = MARKER /\ text[i + 1] \in Digit
                     /\ \A j \in 1..(i - 1) :
                            ~(text[j] = MARKER /\ text[j + 1] \in Digit)
    IN  int(DigitRun(text, first + 1))

\* guest.reboot() has just been called for the last attempt
RebootJustCalled ==
    /\ lastCall.op = "reboot"
    /\ attempts # <<>>
    /\ LastAttempt.guest = lastCall.guest /\ LastAttempt.test = lastCall.test

\* C14 (as stated): in every state in which the reboot call has been issued,
\* also when it failed, the test's environment carries REBOOT_COUNT = N + 1
\* for the integer N of the marker.
C14_Original_CountBeforeReboot ==
    RebootJustCalled =>
        RebootCountOf(environment[lastCall.test])
            = {<<REBOOT_VARIABLE,
                 str(MarkerInteger(LastAttempt.outcome.stdout) + 1)>>}

\* C14 (amended): the reboot is called first and REBOOT_COUNT is set after
\* it: once a reboot call has returned the test's environment carries
\* REBOOT_COUNT = N + 1, and when the reboot call has failed the environment
\* carries what the requesting attempt ran with.
C14_CountAfterReboot ==
    RebootJustCalled =>
        IF lastCall.ok
        THEN RebootCountOf(environment[lastCall.test])
                = {<<REBOOT_VARIABLE,
                     str(MarkerInteger(LastAttempt.outcome.stdout) + 1)>>}
        ELSE RebootCountOf(environment[lastCall.test])
                = RebootCountOf(LastAttempt.env)

\* C14: the reboot asked for with the integer 0 by an attempt that ran with
\* REBOOT_COUNT "2" has failed, and REBOOT_COUNT is "2", not "1"
C14_Witness ==
    /\ RebootJustCalled /\ ~lastCall.ok /\ raised
    /\ MarkerInteger(LastAttempt.outcome.stdout) = 0
    /\ RebootCountOf(LastAttempt.env) = {<<REBOOT_VARIABLE, <<"2">>>>}
    /\ RebootCountOf(environment[lastCall.test])
          = {<<REBOOT_VARIABLE, <<"2">>>>}

\* C15: the later of two consecutive attempts of a test runs with
\* REBOOT_COUNT equal to str(N + 1) for the integer N of the first marker of
\* the earlier attempt's output, whatever REBOOT_COUNT the earlier attempt
\* ran with and whatever follows the first marker.
C15_CountFromFirstMarker ==
    TwoAttempts =>
        /\ ContainsMarker(attempts[1].outcome.stdout)
        /\ RebootCountOf(attempts[2].env)
              = {<<REBOOT_VARIABLE,
                   str(MarkerInteger(attempts[1].outcome.stdout) + 1)>>}

\* C15: an attempt that ran without REBOOT_COUNT printed a marker with 1 and
\* later a marker with 0: the next attempt ran with "2"
C15_Witness ==
    /\ TwoAttempts
    /\ RebootCountOf(attempts[1].env) = {}
    /\ attempts[1].outcome.stdout = <<"x", MARKER, "1", "x", MARKER, "0">>
    /\ RebootCountOf(attempts[2].env) = {<<REBOOT_VARIABLE, <<"2">>>>}

\* C16: every test finalized on the current guest has REBOOT_COUNT "0" in
\* its environment, from the step that appends its Result on.
C16_ResetBeforeFinalization ==
    \A t \in FinalizedTests :
        /\ ResultsOf(gi, t) # {}
        /\ RebootCountOf(environment[t]) = {<<REBOOT_VARIABLE, <<"0">>>>}

\* C16: a test that never asked for a reboot and never had a REBOOT_COUNT
\* has been finalized
C16_Witness ==
    /\ gi = 1 /\ index = 1 /\ pc = "execute"
    /\ Len(attempts) = 1 /\ LastAttempt.test = 1
    /\ RebootCountOf(LastAttempt.env) = {}
    /\ Len(results) = 1
    /\ RebootCountOf(environment[1]) = {<<REBOOT_VARIABLE, <<"0">>>>}

\* the last attempt ended in a RunError whose output carries a marker, and
\* the reboot check is next
FailedAttemptWithMarker ==
    /\ pc = "handle_reboot" /\ ~raised
    /\ LastAttempt.outcome.raised
    /\ LastAttempt.outcome.stdout # None
    /\ ContainsMarker(LastAttempt.outcome.stdout)

\* C17: after an attempt that failed or timed out with a marker in the
\* output of the RunError, the next step calls guest.reboot(), appends no
\* Result and keeps the index, and after a successful reboot the same test
\* is executed again.
C17_FailedAttemptIsScanned ==
    [][FailedAttemptWithMarker =>
          /\ returncode[index + 1] # 0
          /\ lastCall' = [guest |-> gi, op |-> "reboot", test |-> index + 1,
                          ok |-> lastCall'.ok]
          /\ results' = results
          /\ index' = index
          /\ lastCall'.ok => pc' = "execute"]_vars

\* C17: a timed-out attempt with a marker was followed by a reboot and the
\* test is about to be executed again
C17_Witness ==
    /\ RebootJustCalled /\ lastCall.ok /\ pc = "execute"
    /\ index + 1 = lastCall.test
    /\ LastAttempt.outcome.raised
    /\ returncode[lastCall.test] = PROCESS_TIMEOUT
    /\ ContainsMarker(LastAttempt.outcome.stdout)
    /\ ResultsOf(gi, lastCall.test) = {}

\* the output of an attempt as a text: the empty text when there is none
OutputText(o) == IF o.stdout = None THEN <<>> ELSE o.stdout

\* C18: from the execute of an attempt until the next one the test's output
\* file holds that attempt's output, empty when there is none; and a reboot
\* is called only for an attempt whose own output has a marker.
C18_OutputOverwritten ==
    /\ attempts # <<>> /\ LastAttempt.guest = gi =>
           outputFile[LastAttempt.test] = OutputText(LastAttempt.outcome)
    /\ RebootJustCalled => ContainsMarker(OutputText(LastAttempt.outcome))
    /\ attempts # <<>> /\ LastAttempt.guest = gi /\ Finalized =>
           ~ContainsMarker(OutputText(LastAttempt.outcome))

\* C18: an attempt without output followed one that asked for a reboot: the
\* file is empty and the test has been finalized
C18_Witness ==
    /\ TwoAttempts /\ LastAttempt.guest = gi /\ Finalized
    /\ ContainsMarker(attempts[1].outcome.stdout)
    /\ attempts[2].outcome.stdout = None
    /\ outputFile[LastAttempt.test] = <<>>
    /\ Cardinality(ResultsOf(gi, LastAttempt.test)) = 1

\* a reboot has just been made and the test is about to be executed again
Rebooted == RebootJustCalled /\ lastCall.ok /\ pc = "execute"

\* go() has returned: at once in a dry run, else after every guest's loop
\* reached index = len(tests) and made its progress reset
Terminated ==
    /\ pc = "done" /\ ~raised
    /\ ~dry => /\ gi = NumGuests
               /\ index = NumTests
               /\ progressResets = NumGuests
               /\ Len(results) = NumGuests * NumTests

\* C19: when every step go() can take is taken, either reboots are made again
\* and again for ever, or a guest call fails, or go() terminates with every
\* guest's loop at index = len(tests) and one progress reset per guest.
C19_Termination ==
    \/ []<>Rebooted
    \/ <>raised
    \/ <>Terminated

\* C19: go() has returned from a run with MaxReboots reboots or more for a test
C19_Witness ==
    /\ Terminated /\ ~dry
    /\ rebootCalls = MaxReboots
    /\ progressResets = NumGuests

\* an attempt of test t on guest g has been executed and not yet finalized
\* or rebooted for
AttemptPending(g, t) ==
    /\ attempts # <<>>
    /\ LastAttempt.guest = g /\ LastAttempt.test = t
    /\ gi = g /\ pc \in {"pull", "handle_reboot"}

\* every attempt of test t on guest g asks for a reboot
AlwaysRequests(g, t) ==
    AttemptPending(g, t) => ContainsMarker(OutputText(LastAttempt.outcome))

\* go() is not beyond test t on guest g and has no Result for it
NotBeyond(g, t) ==
    /\ gi <= g
    /\ gi = g =>
          /\ pc \in {"setup_reboot", "push"} \/ index < t
          /\ pc \notin {"show_progress", "for", "done"}
    /\ Len(results) < ResultPosition(g, t)

\* C20: in a run in which every attempt of test t on guest g asks for a
\* reboot, go() never gets beyond that test on that guest and never has a
\* Result for it, and unless a guest call fails, go() once at the test's first
\* attempt reboots and executes the test again and again for ever, however
\* many reboots there have been.
C20_NoCapOnRetries ==
    \A g \in 1..NumGuests : \A t \in 1..NumTests :
        []AlwaysRequests(g, t) =>
            /\ []NotBeyond(g, t)
            /\ <>AttemptPending(g, t) =>
                  \/ <>raised
                  \/ []<>(Rebooted /\ lastCall.guest = g /\ lastCall.test = t)

\* C20: the test has been rebooted for MaxReboots times or more and is about
\* to be executed once more, every attempt so far having asked for a reboot
C20_Witness ==
    /\ Rebooted
    /\ rebootCalls = MaxReboots
    /\ LastAttempt.number = MaxReboots + 1
    /\ Len(results) < ResultPosition(lastCall.guest, lastCall.test)

\* the argument has one of the forms of the how option
HasHowForm(arg) ==
    \/ arg = <<"-", "h">>
    \/ arg = <<"-", "-", "h", "o", "w">>
    \/ startswith(arg, <<"-", "-", "h", "o", "w", "=">>)
    \/ startswith(arg, <<"-", "h">>)

\* the how value of an argument list: that of the first argument of one of
\* the forms, None when there is no such argument or when -h or --how is the
\* last argument (a blank after -h is not part of VALUE)
HowValue(args) ==
    LET forms == {i \in 1..Len(args) : HasHowForm(args[i])}
    IN  IF forms = {} THEN None
        ELSE LET i == CHOOSE k \in forms : \A j \in forms : k <= j
                 arg == args[i]
             IN  IF arg = <<"-", "h">> \/ arg = <<"-", "-", "h", "o", "w">>
                 THEN IF i < Len(args) THEN args[i + 1] ELSE None
                 ELSE IF startswith(arg, <<"-", "-", "h", "o", "w", "=">>)
                 THEN SubSeq(arg, 7, Len(arg))
                 ELSE IF Len(arg) >= 3 /\ arg[3] = " "
                 THEN SubSeq(arg, 4, Len(arg))
                 ELSE SubSeq(arg, 3, Len(arg))

\* the method an argument list selects: the first method, in the order of
\* the list, whose name begins with the how value; None when there is no how
\* value or no such method
SelectedBy(args) ==
    LET how == HowValue(args)
        named == {k \in 1..Len(methods) :
                     /\ how # None
                     /\ Len(how) <= Len(methods[k])
                     /\ \A c \in 1..Len(how) : methods[k][c] = how[c]}
    IN  IF named = {} THEN None
        ELSE methods[CHOOSE k \in named : \A j \in named : k <= j]

\* C21 (as stated): after a parse the command's method is the one the parsed
\* arguments select by the first-matching-prefix rule, and none when they
\* select none; parsing, help and invoke hand over to that method, and to the
\* base command when there is none.
C21_Original_SelectedByLastParse ==
    command.lastOp # "none" =>
        /\ command.method = SelectedBy(command.parsedArgs)
        /\ command.delegate = IF SelectedBy(command.parsedArgs) = None
                              THEN "base"
                              ELSE SelectedBy(command.parsedArgs)

\* what holds of every parse: arguments that select a method make it the
\* command's method, arguments that select none leave the command's method
\* as it was, and every operation hands over to the command's method if
\* there is one
SelectionOnEveryParse ==
    [][ /\ command'.lastOp = "parse_args" =>
              command'.method = IF SelectedBy(command'.parsedArgs) # None
                                THEN SelectedBy(command'.parsedArgs)
                                ELSE command.method
        /\ command'.lastOp # "none" =>
              command'.delegate = IF command'.method = None THEN "base"
                                  ELSE command'.method
      ]_vars

\* a command whose method was selected by an earlier parse has been parsed
\* again with arguments that select none
KeepsEarlierMethod ==
    /\ command.lastOp = "parse_args"
    /\ SelectedBy(command.parsedArgs) = None
    /\ command.method # None

====
